---- MODULE Spec2Model ----
(***************************************************************************)
(* Model of the Python SDK transport client (src/src/sdk/client.py):       *)
(* ApiClient._make_request, its retry loop, its error normalisation and    *)
(* its success envelope.  One thread of the program performs one call; the *)
(* network (session.request) answers every attempt with a response or with *)
(* a requests.RequestException, chosen nondeterministically.               *)
(***************************************************************************)
EXTENDS Integers, Sequences, FiniteSets, TLC

\* ------------------------------------------------------------------ bounds
\* config.retries is drawn from 0..MaxRetries, config.retry_delay from
\* 0..MaxDelay.
MaxRetries == 3
MaxDelay == 2

\* Threads of the program that may call the client.
Threads == {"t1", "t2"}

\* ------------------------------------------------------------ python values
\* A Python value is its type name and its repr.
PyNone == [ty |-> "NoneType", repr |-> "None"]
PyStr(s) == [ty |-> "str", repr |-> s]
PyDict(r) == [ty |-> "dict", repr |-> r]
PyList(r) == [ty |-> "list", repr |-> r]
\* Placeholder of a field that a result does not have.
Unset == [ty |-> "-", repr |-> "-"]

EmptyDict == PyDict("{}")
FieldEmailDict == PyDict("{'field': 'email'}")
BadRequestDict ==
    PyDict("{'message': 'Bad Request', 'code': 'VALIDATION_ERROR', 'details': {'field': 'email'}}")
SuccessDict == PyDict("{'message': 'success'}")

\* The items of the dicts above.
items(d) ==
    CASE d = BadRequestDict ->
           [k \in {"message", "code", "details"} |->
              CASE k = "message" -> PyStr("Bad Request")
                [] k = "code" -> PyStr("VALIDATION_ERROR")
                [] k = "details" -> FieldEmailDict]
      [] d = SuccessDict -> [k \in {"message"} |-> PyStr("success")]
      [] d = FieldEmailDict -> [k \in {"field"} |-> PyStr("email")]
      [] OTHER -> [k \in {} |-> PyNone]

\* Only a dict has a .get method (client.py:74, :76 call error_data.get).
has_get(v) == v.ty = "dict"

\* dict.get(key, default).
dict_get(d, key, default) ==
    IF key \in DOMAIN items(d) THEN items(d)[key] ELSE default

\* ------------------------------------------------------------- the network
\* Response bodies (raw text) the server may send.
TextBody == "Service Unavailable"
BadRequestBody ==
    "{\"message\":\"Bad Request\",\"code\":\"VALIDATION_ERROR\",\"details\":{\"field\":\"email\"}}"
SuccessBody == "{\"message\":\"success\"}"
ArrayBody == "[]"
Bodies == {TextBody, BadRequestBody, SuccessBody, ArrayBody}

\* HTTP status codes: a success, a client error and two server errors.
Statuses == {200, 400, 500, 503}

\* response.json(): the parsed body, or a raised exception when the text is
\* not JSON.
json(text) ==
    CASE text = BadRequestBody -> [raised |-> FALSE, value |-> BadRequestDict]
      [] text = SuccessBody -> [raised |-> FALSE, value |-> SuccessDict]
      [] text = "{}" -> [raised |-> FALSE, value |-> EmptyDict]
      [] text = ArrayBody -> [raised |-> FALSE, value |-> PyList("[]")]
      [] text = "null" -> [raised |-> FALSE, value |-> PyNone]
      [] OTHER -> [raised |-> TRUE, value |-> Unset]

NoHeaders == [h \in {} |-> ""]
\* The headers the server puts on a response with this body.
ServerHeaders(text) ==
    [h \in {"Content-Type"} |->
        IF json(text).raised THEN "text/plain" ELSE "application/json"]

\* What one session.request call ends in.
HttpResponse(status, text) ==
    [type |-> "Response", status_code |-> status, text |-> text,
     headers |-> ServerHeaders(text), error |-> ""]
RequestException(msg) ==
    [type |-> "RequestException", status_code |-> -1, text |-> "",
     headers |-> NoHeaders, error |-> msg]
ExceptionMessages == {"Connection refused", "Read timed out"}

\* str(e) of a RequestException.
str(e) == PyStr(e.error)

\* str of a status code, as the f-string of client.py:74 formats it.
status_str(s) ==
    CASE s = 200 -> "200" [] s = 400 -> "400"
      [] s = 500 -> "500" [] s = 503 -> "503" [] OTHER -> "?"


\* ------------------------------------------------------------ the program
VARIABLES
    config,           \* ApiClient.config (an ApiClientConfig)
    session_headers,  \* ApiClient.session.headers
    pc,               \* where each thread is in its call of _make_request
    args,             \* the (method, url) of each thread's call
    full_url,         \* _make_request's local full_url
    range_end,        \* the end of range(self.config.retries + 1)
    attempt,          \* _make_request's loop variable
    log,              \* the session.request calls made, with what each ended in
    sleeps,           \* the arguments of the time.sleep calls made
    stdout,           \* the lines printed
    result,           \* how the call ended
    setting_key       \* the api_key of a set_api_key call between its two
                      \* assignments, or NoCall

vars == <<config, session_headers, pc, args, full_url, range_end, attempt,
          log, sleeps, stdout, result, setting_key>>

\* ApiClientConfig and its defaults.
DefaultTimeout == 30
ApiClientConfig(base_url, api_key, retries, retry_delay, debug) ==
    [base_url |-> base_url, api_key |-> api_key, timeout |-> DefaultTimeout,
     retries |-> retries, retry_delay |-> retry_delay, debug |-> debug]

NoKey == "None"
NoCall == "-"
BaseUrl == [origin |-> "https://api.example.com", path |-> ""]
NoUrl == [origin |-> "", path |-> ""]

\* The value of the Authorization header for a key.
Bearer(api_key) == <<"Bearer", api_key>>

\* ApiClient.__init__: the session's default headers.
InitialHeaders(cfg) ==
    IF cfg.api_key # NoKey /\ cfg.api_key # ""
    THEN [h \in {"Content-Type", "Authorization"} |->
            IF h = "Authorization" THEN Bearer(cfg.api_key)
            ELSE <<"application/json">>]
    ELSE [h \in {"Content-Type"} |-> <<"application/json">>]

\* urljoin(base_url, url) for a url that is an absolute path.
urljoin(base_url, url) == [origin |-> base_url.origin, path |-> url]

\* str.upper() on a method name.
upper(method) ==
    CASE method = "get" -> "GET" [] method = "post" -> "POST"
      [] OTHER -> method

\* --------------------------------------------------------- results of a call
Pending ==
    [how |-> "-", value |-> "pending", message |-> Unset, status |-> -1,
     code |-> Unset, details |-> Unset, data |-> Unset, headers |-> NoHeaders,
     success |-> FALSE]
\* raise ApiError(message, status, code, details)
ApiError(message, status, code, details) ==
    [how |-> "raise", value |-> "ApiError", message |-> message,
     status |-> status, code |-> code, details |-> details, data |-> Unset,
     headers |-> NoHeaders, success |-> FALSE]
\* return ApiResponse(data=, status=, headers=, success=)
ApiResponse(data, status, headers, success) ==
    [how |-> "return", value |-> "ApiResponse", message |-> Unset,
     status |-> status, code |-> Unset, details |-> Unset, data |-> data,
     headers |-> headers, success |-> success]
\* error_data.get on a value that is no dict raises AttributeError.
AttributeError ==
    [how |-> "raise", value |-> "AttributeError", message |-> Unset,
     status |-> -1, code |-> Unset, details |-> Unset, data |-> Unset,
     headers |-> NoHeaders, success |-> FALSE]
\* The for loop ends without a return or a raise: the function returns None.
ReturnNone ==
    [how |-> "return", value |-> "None", message |-> Unset, status |-> -1,
     code |-> Unset, details |-> Unset, data |-> Unset, headers |-> NoHeaders,
     success |-> FALSE]

\* ------------------------------------------- the decisions of _make_request
\* Mutant: range(self.config.retries), one iteration short.
M_LoopRangeShort(retries) == retries

\* range(self.config.retries + 1)
LoopRange(retries) == retries + 1

\* Mutant: with debug on, nothing is retried.
M_ShouldRetryUnlessDebug(status_code, a, retries) ==
    status_code >= 500 /\ a < retries /\ ~config.debug

\* Mutant: the status is not looked at, every response is retried.
M_ShouldRetryAnyStatus(status_code, a, retries) == a < retries

\* if response.status_code >= 500 and attempt < self.config.retries
ShouldRetry(status_code, a, retries) == status_code >= 500 /\ a < retries

\* time.sleep(self.config.retry_delay * (attempt + 1)) after a 5xx response
BackoffAfterResponse(retry_delay, a) == retry_delay * (a + 1)

\* Mutant: only 5xx counts as a failure.
M_okBelow500(status_code) == status_code < 500

\* response.ok: requests documents it as "status_code is less than 400"; the
\* statuses of the model are HTTP status codes (100..599), where that is what
\* it computes.
ok(status_code) == status_code < 400

\* error_data = {}; try: error_data = response.json(); except: pass
error_data(response) ==
    IF json(response.text).raised THEN EmptyDict
    ELSE json(response.text).value

\* f'Request failed with status {response.status_code}'
DefaultMessage(status_code) ==
    PyStr("Request failed with status " \o status_str(status_code))

\* The details argument of raise ApiError(...) for a response.
ErrorDetails(response) == error_data(response)

\* raise ApiError(error_data.get('message', ...), status_code,
\*                error_data.get('code', 'UNKNOWN_ERROR'), error_data)
RaiseForResponse(response) ==
    IF ~has_get(error_data(response)) THEN AttributeError
    ELSE ApiError(
           dict_get(error_data(response), "message",
                    DefaultMessage(response.status_code)),
           response.status_code,
           dict_get(error_data(response), "code", PyStr("UNKNOWN_ERROR")),
           ErrorDetails(response))

\* try: data = response.json(); except: data = response.text
ResponseData(response) ==
    IF json(response.text).raised THEN PyStr(response.text)
    ELSE json(response.text).value

\* return ApiResponse(data=data, status=..., headers=dict(...), success=True)
Envelope(response) ==
    ApiResponse(ResponseData(response), response.status_code,
                [h \in DOMAIN response.headers |-> response.headers[h]], TRUE)

\* Mutant: the except clause never retries.
M_RetriesExhaustedAlways(a, retries) == TRUE

\* if attempt == self.config.retries (in the except clause)
RetriesExhausted(a, retries) == a = retries

\* raise ApiError(str(e), 0, 'NETWORK_ERROR')
NetworkError(e) == ApiError(str(e), 0, PyStr("NETWORK_ERROR"), PyNone)

\* Mutant: a constant wait after an exception.
M_BackoffConstant(retry_delay, a) == retry_delay

\* time.sleep(self.config.retry_delay * (attempt + 1)) after an exception
BackoffAfterException(retry_delay, a) == retry_delay * (a + 1)

\* ------------------------------------------------------------------ actions
Methods == {"GET"}
Paths == {"/test"}

\* The responses the server may give at a path: anything at /test, and at
\* /users a 503 with a text body or a 200 with a JSON body.
Served(path) ==
    IF path = "/users"
    THEN {[status |-> 503, text |-> TextBody], [status |-> 200, text |-> SuccessBody]}
    ELSE [status : Statuses, text : Bodies]

\* The messages of the RequestExceptions a request to a path may end in.
ExceptionsAt(path) ==
    IF path = "/users" THEN {"Connection refused"} ELSE ExceptionMessages

InitAt(configs, callers, paths) ==
    /\ config \in configs
    /\ session_headers = InitialHeaders(config)
    /\ pc = [t \in Threads |-> IF t \in callers THEN "idle" ELSE "absent"]
    /\ args \in [Threads -> [method : Methods, url : paths]]
    /\ full_url = [t \in Threads |-> NoUrl]
    /\ range_end = [t \in Threads |-> 0]
    /\ attempt = [t \in Threads |-> 0]
    /\ log = [t \in Threads |-> <<>>]
    /\ sleeps = [t \in Threads |-> <<>>]
    /\ stdout = [t \in Threads |-> <<>>]
    /\ result = [t \in Threads |-> Pending]
    /\ setting_key = NoCall

InitWith(configs, callers) == InitAt(configs, callers, Paths)

Configs ==
    {ApiClientConfig(BaseUrl, "test-api-key", r, d, dbg) :
        r \in 0..MaxRetries, d \in 0..MaxDelay, dbg \in BOOLEAN}

Init == InitWith(Configs, {"t1"})

\* The call enters _make_request: full_url is computed and the loop starts.
Call(t) ==
    /\ pc[t] = "idle"
    /\ full_url' = [full_url EXCEPT ![t] = urljoin(config.base_url, args[t].url)]
    /\ range_end' = [range_end EXCEPT ![t] = LoopRange(config.retries)]
    /\ attempt' = [attempt EXCEPT ![t] = 0]
    /\ IF 0 < LoopRange(config.retries)
       THEN /\ pc' = [pc EXCEPT ![t] = "request"]
            /\ result' = result
       ELSE /\ pc' = [pc EXCEPT ![t] = "done"]
            /\ result' = [result EXCEPT ![t] = ReturnNone]
    /\ UNCHANGED <<config, session_headers, args, log, sleeps, stdout,
                   setting_key>>

\* Mutant: the address is resolved again on every attempt.
M_SentResolvesAgain(t) ==
    [method |-> args[t].method, url |-> urljoin(config.base_url, args[t].url),
     headers |-> session_headers]

\* The request that one attempt sends.
Sent(t) ==
    [method |-> args[t].method, url |-> full_url[t], headers |-> session_headers]

\* if self.config.debug: print(f"[API Client] {method.upper()} {full_url}")
Printed(t) ==
    IF config.debug
    THEN Append(stdout[t], <<"[API Client]", upper(args[t].method), full_url[t]>>)
    ELSE stdout[t]

\* Mutant: a process-wide pause, nobody sends while some thread sleeps.
M_CanAttemptNoSleeper(t) ==
    pc[t] = "request" /\ \A u \in Threads : pc[u] # "sleep"

\* The thread is at self.session.request: time.sleep suspends only the
\* thread that called it.
CanAttempt(t) == pc[t] = "request"

\* One iteration of the loop in which session.request returns a response.
AttemptResponse(t) ==
    /\ CanAttempt(t)
    /\ \E r \in Served(full_url[t].path) :
         LET response == HttpResponse(r.status, r.text) IN
         /\ log' = [log EXCEPT ![t] =
                      Append(@, [request |-> Sent(t), outcome |-> response])]
         /\ stdout' = [stdout EXCEPT ![t] = Printed(t)]
         /\ IF ShouldRetry(response.status_code, attempt[t], config.retries)
            THEN /\ sleeps' = [sleeps EXCEPT ![t] =
                       Append(@, BackoffAfterResponse(config.retry_delay, attempt[t]))]
                 /\ pc' = [pc EXCEPT ![t] = "sleep"]
                 /\ result' = result
            ELSE /\ sleeps' = sleeps
                 /\ pc' = [pc EXCEPT ![t] = "done"]
                 /\ result' = [result EXCEPT ![t] =
                       IF ~ok(response.status_code)
                       THEN RaiseForResponse(response)
                       ELSE Envelope(response)]
    /\ UNCHANGED <<config, session_headers, args, full_url, range_end, attempt,
                   setting_key>>

\* One iteration of the loop in which session.request raises a
\* requests.RequestException.
AttemptException(t) ==
    /\ CanAttempt(t)
    /\ \E msg \in ExceptionsAt(full_url[t].path) :
         LET e == RequestException(msg) IN
         /\ log' = [log EXCEPT ![t] =
                      Append(@, [request |-> Sent(t), outcome |-> e])]
         /\ stdout' = [stdout EXCEPT ![t] = Printed(t)]
         /\ IF RetriesExhausted(attempt[t], config.retries)
            THEN /\ sleeps' = sleeps
                 /\ pc' = [pc EXCEPT ![t] = "done"]
                 /\ result' = [result EXCEPT ![t] = NetworkError(e)]
            ELSE /\ sleeps' = [sleeps EXCEPT ![t] =
                       Append(@, BackoffAfterException(config.retry_delay, attempt[t]))]
                 /\ pc' = [pc EXCEPT ![t] = "sleep"]
                 /\ result' = result
    /\ UNCHANGED <<config, session_headers, args, full_url, range_end, attempt,
                   setting_key>>

\* time.sleep returns: the for loop takes its next value, or ends.
Wake(t) ==
    /\ pc[t] = "sleep"
    /\ IF attempt[t] + 1 < range_end[t]
       THEN /\ attempt' = [attempt EXCEPT ![t] = @ + 1]
            /\ pc' = [pc EXCEPT ![t] = "request"]
            /\ result' = result
       ELSE /\ attempt' = attempt
            /\ pc' = [pc EXCEPT ![t] = "done"]
            /\ result' = [result EXCEPT ![t] = ReturnNone]
    /\ UNCHANGED <<config, session_headers, args, full_url, range_end, log,
                   sleeps, stdout, setting_key>>

Next ==
    \E t \in Threads :
        \/ Call(t)
        \/ AttemptResponse(t)
        \/ AttemptException(t)
        \/ Wake(t)

Spec == Init /\ [][Next]_vars

\* ------------------------------------------------------------ the mutators
\* retries of the clients that two threads use concurrently: 0..MaxRetriesConc.
MaxRetriesConc == 1

OtherBaseUrl == [origin |-> "https://api.yourapp.com", path |-> ""]
\* The arguments the program passes to set_api_key and to set_base_url.
NewKeys == {"new-api-key"}
NewBaseUrls == {OtherBaseUrl}

\* Mutant: the key is stored and the header keeps its old value.
M_WithAuthorizationStale(headers, api_key) == headers

\* self.session.headers['Authorization'] = f'Bearer {api_key}'
WithAuthorization(headers, api_key) ==
    [h \in DOMAIN headers \cup {"Authorization"} |->
        IF h = "Authorization" THEN Bearer(api_key) ELSE headers[h]]

\* Mutant: a fresh configuration is built around the new base address.
M_WithBaseUrlFresh(cfg, base_url) ==
    ApiClientConfig(base_url, cfg.api_key, 3, 1, FALSE)

\* self.config.base_url = base_url
WithBaseUrl(cfg, base_url) == [cfg EXCEPT !.base_url = base_url]

\* set_api_key, first assignment: self.config.api_key = api_key
SetApiKeyConfig(api_key) ==
    /\ setting_key = NoCall
    /\ config' = [config EXCEPT !.api_key = api_key]
    /\ setting_key' = api_key
    /\ UNCHANGED <<session_headers, pc, args, full_url, range_end, attempt,
                   log, sleeps, stdout, result>>

\* set_api_key, second assignment, after which the call returns.
SetApiKeyHeader ==
    /\ setting_key # NoCall
    /\ session_headers' = WithAuthorization(session_headers, setting_key)
    /\ setting_key' = NoCall
    /\ UNCHANGED <<config, pc, args, full_url, range_end, attempt, log, sleeps,
                   stdout, result>>

\* set_base_url
SetBaseUrl(base_url) ==
    /\ setting_key = NoCall
    /\ config' = WithBaseUrl(config, base_url)
    /\ UNCHANGED <<session_headers, pc, args, full_url, range_end, attempt,
                   log, sleeps, stdout, result, setting_key>>

\* Two threads call one client while a third calls its setters.
ConcConfigs ==
    {ApiClientConfig(BaseUrl, k, r, 1, dbg) :
        k \in {NoKey, "test-api-key"}, r \in 0..MaxRetriesConc, dbg \in BOOLEAN}

InitConc == InitAt(ConcConfigs, Threads, {"/users"})

NextConc ==
    \/ \E t \in Threads : Call(t)
    \/ \E t \in Threads : AttemptResponse(t)
    \/ \E t \in Threads : AttemptException(t)
    \/ \E t \in Threads : Wake(t)
    \/ \E k \in NewKeys : SetApiKeyConfig(k)
    \/ SetApiKeyHeader
    \/ \E b \in NewBaseUrls : SetBaseUrl(b)

SpecConc == InitConc /\ [][NextConc]_vars

\* Clients built from any integers: ApiClientConfig declares retries: int and
\* timeout: int and nothing more, and ApiClient.__init__ checks nothing.
AnyConfigs ==
    {[ApiClientConfig(BaseUrl, "test-api-key", r, 1, FALSE) EXCEPT !.timeout = tm] :
        r \in -1..1, tm \in {0, DefaultTimeout}}

InitAnyConfig == InitWith(AnyConfigs, {"t1"})

SpecAnyConfig == InitAnyConfig /\ [][Next]_vars


\* ------------------------------------------------------------------- claims
Last(s) == s[Len(s)]
IsResponse(o) == o.type = "Response"
IsException(o) == o.type = "RequestException"
IsServerError(o) == IsResponse(o) /\ o.status_code >= 500
IsSuccess(o) == IsResponse(o) /\ o.status_code < 400
Done(t) == pc[t] = "done"

RECURSIVE SumSeq(_)
SumSeq(s) == IF s = <<>> THEN 0 ELSE s[1] + SumSeq(Tail(s))

\* The body of a response read as JSON: the parsed value, or the raw text.
ParsedOrText(o) ==
    IF json(o.text).raised THEN PyStr(o.text) ELSE json(o.text).value
\* Whether the body of a response is a JSON object that has the key.
BodyHas(o, key) ==
    /\ ~json(o.text).raised
    /\ json(o.text).value.ty = "dict"
    /\ key \in DOMAIN items(json(o.text).value)
BodyField(o, key) == items(json(o.text).value)[key]
BodyIsObject(o) == ~json(o.text).raised /\ json(o.text).value.ty = "dict"

\* C1: one call makes at least 1 and at most retries + 1 attempts, and every
\* attempt (loop iteration) makes exactly one network call, so the number of
\* session.request calls never exceeds retries + 1.
C1_AttemptBudget ==
    \A t \in Threads :
        /\ Len(log[t]) <= config.retries + 1
        /\ Done(t) => Len(log[t]) >= 1
        /\ pc[t] \in {"idle", "absent"} => Len(log[t]) = 0
        /\ pc[t] = "request" => Len(log[t]) = attempt[t]
        /\ pc[t] \in {"sleep", "done"} => Len(log[t]) = attempt[t] + 1

C1_Witness ==
    /\ Done("t1")
    /\ config.retries >= 2
    /\ Len(log["t1"]) = config.retries + 1

\* C2 (as claimed): when every attempt receives a status >= 500 response,
\* exactly retries + 1 attempts occur, the waits are strictly increasing and
\* the call raises an ApiError whose status, message, code and details come
\* from the last response.
C2_AllServerErrors ==
    \A t \in Threads :
        (/\ Done(t)
         /\ Len(log[t]) >= 1
         /\ \A i \in 1..Len(log[t]) : IsServerError(log[t][i].outcome))
        => LET o == Last(log[t]).outcome IN
           /\ Len(log[t]) = config.retries + 1
           /\ \A i \in 1..(Len(sleeps[t]) - 1) : sleeps[t][i] < sleeps[t][i + 1]
           /\ result[t].how = "raise"
           /\ result[t].value = "ApiError"
           /\ result[t].status = o.status_code
           /\ result[t].message =
                IF BodyHas(o, "message") THEN BodyField(o, "message")
                ELSE DefaultMessage(o.status_code)
           /\ result[t].code =
                IF BodyHas(o, "code") THEN BodyField(o, "code")
                ELSE PyStr("UNKNOWN_ERROR")
           /\ result[t].details \in
                {ParsedOrText(o), EmptyDict} \cup
                (IF BodyHas(o, "details") THEN {BodyField(o, "details")} ELSE {})

\* C3: a success response on attempt k, after k - 1 attempts that each ended
\* in a 5xx response or a transport failure, ends the call: exactly k
\* attempts, a success envelope for attempt k's response, no attempt after it;
\* and the call does not give up before attempt k while attempts remain.
C3_SuccessAfterRetries ==
    \A t \in Threads :
        /\ \A i \in 1..Len(log[t]) :
             LET o == log[t][i].outcome IN
             /\ i < Len(log[t]) => (IsServerError(o) \/ IsException(o))
             /\ IsSuccess(o) =>
                  /\ i = Len(log[t])
                  /\ Done(t)
                  /\ result[t].how = "return"
                  /\ result[t].value = "ApiResponse"
                  /\ result[t].success = TRUE
                  /\ result[t].status = o.status_code
                  /\ result[t].headers = o.headers
                  /\ result[t].data = ParsedOrText(o)
        /\ (/\ Done(t)
            /\ \A i \in 1..Len(log[t]) :
                 IsServerError(log[t][i].outcome) \/ IsException(log[t][i].outcome))
           => Len(log[t]) = config.retries + 1

C3_Witness ==
    /\ Done("t1")
    /\ Len(log["t1"]) = 2
    /\ log["t1"][1].outcome.status_code = 503
    /\ log["t1"][2].outcome.status_code = 200
    /\ result["t1"].value = "ApiResponse"

\* C4 (as claimed): a retry follows only a 5xx response or a transport
\* failure; a response with a status below 500 is followed by no attempt; a
\* 4xx response raises ApiError on the attempt where it occurs, so a call
\* whose first response is 4xx makes one attempt and no wait.
C4_RetryPredicate ==
    \A t \in Threads :
        \A i \in 1..Len(log[t]) :
            LET o == log[t][i].outcome IN
            /\ i < Len(log[t]) =>
                 /\ IsServerError(o) \/ IsException(o)
                 /\ i < config.retries + 1
            /\ (IsResponse(o) /\ o.status_code < 500) =>
                 /\ i = Len(log[t])
                 /\ Done(t)
            /\ (IsResponse(o) /\ o.status_code >= 400 /\ o.status_code < 500) =>
                 /\ result[t].how = "raise"
                 /\ result[t].value = "ApiError"
                 /\ result[t].status = o.status_code
                 /\ i = 1 => (Len(log[t]) = 1 /\ sleeps[t] = <<>>)

\* C5 (as claimed): a call that ends on a non-success response whose body is
\* a JSON object with message, code and details raises ApiError with the
\* response's status, the body's code and the value of the body's details
\* field.
C5_ErrorFields ==
    \A t \in Threads :
        (/\ Done(t)
         /\ Len(log[t]) >= 1
         /\ IsResponse(Last(log[t]).outcome)
         /\ Last(log[t]).outcome.status_code >= 400
         /\ BodyHas(Last(log[t]).outcome, "message")
         /\ BodyHas(Last(log[t]).outcome, "code")
         /\ BodyHas(Last(log[t]).outcome, "details"))
        => LET o == Last(log[t]).outcome IN
           /\ result[t].value = "ApiError"
           /\ result[t].status = o.status_code
           /\ result[t].code = BodyField(o, "code")
           /\ result[t].details = BodyField(o, "details")

\* C6: a transport failure with attempts remaining is followed by another
\* attempt; on attempt retries + 1 it ends the call with ApiError(status 0,
\* code NETWORK_ERROR, no details, the failure's message), whatever earlier
\* attempts returned; and status 0 is raised only then.
C6_TransportFailure ==
    \A t \in Threads :
        /\ (Len(log[t]) >= 1 /\ IsException(Last(log[t]).outcome)) =>
             IF Len(log[t]) = config.retries + 1
             THEN /\ Done(t)
                  /\ result[t].how = "raise"
                  /\ result[t].value = "ApiError"
                  /\ result[t].status = 0
                  /\ result[t].code = PyStr("NETWORK_ERROR")
                  /\ result[t].details = PyNone
                  /\ result[t].message = PyStr(Last(log[t]).outcome.error)
             ELSE /\ pc[t] \in {"sleep", "request"}
                  /\ Len(sleeps[t]) = Len(log[t])
                  /\ result[t] = Pending
        /\ (result[t].value = "ApiError" /\ result[t].status = 0) =>
             /\ Len(log[t]) = config.retries + 1
             /\ IsException(Last(log[t]).outcome)

C6_Witness ==
    /\ Done("t1")
    /\ Len(log["t1"]) = 3
    /\ IsServerError(log["t1"][1].outcome)
    /\ IsException(log["t1"][2].outcome)
    /\ IsException(log["t1"][3].outcome)
    /\ log["t1"][2].outcome.error # log["t1"][3].outcome.error
    /\ result["t1"].code = PyStr("NETWORK_ERROR")

\* C7 (as claimed): whatever the body of a terminal non-success response is
\* (not JSON, empty, an object lacking message or code, JSON that is no
\* object), the call raises ApiError with the response's status and the
\* defaults for what is missing.
C7_MalformedErrorBody ==
    \A t \in Threads :
        (/\ Done(t)
         /\ Len(log[t]) >= 1
         /\ IsResponse(Last(log[t]).outcome)
         /\ Last(log[t]).outcome.status_code >= 400)
        => LET o == Last(log[t]).outcome IN
           /\ result[t].how = "raise"
           /\ result[t].value = "ApiError"
           /\ result[t].status = o.status_code
           /\ ~BodyHas(o, "message") =>
                result[t].message = DefaultMessage(o.status_code)
           /\ ~BodyHas(o, "code") => result[t].code = PyStr("UNKNOWN_ERROR")
           /\ ~BodyIsObject(o) => result[t].details = EmptyDict

\* C8 (as claimed): a call yields exactly one outcome, a returned success
\* envelope or one raised ApiError, and nothing before it has ended.
C8_OneOutcome ==
    \A t \in Threads :
        IF Done(t)
        THEN \/ result[t].how = "return" /\ result[t].value = "ApiResponse"
             \/ result[t].how = "raise" /\ result[t].value = "ApiError"
        ELSE result[t] = Pending

\* C9: the wait after attempt k is retry_delay * k, after a 5xx response and
\* after a transport failure alike; there is no wait before the first attempt
\* and none after the last, so n attempts wait retry_delay * (1 + ... + (n-1)).
C9_LinearBackoff ==
    \A t \in Threads :
        /\ \A k \in 1..Len(sleeps[t]) : sleeps[t][k] = config.retry_delay * k
        /\ pc[t] \in {"idle", "absent"} => sleeps[t] = <<>>
        /\ pc[t] \in {"request", "sleep"} => Len(sleeps[t]) = Len(log[t])
        /\ Done(t) =>
             /\ Len(sleeps[t]) = Len(log[t]) - 1
             /\ SumSeq(sleeps[t]) =
                  config.retry_delay * ((Len(log[t]) * (Len(log[t]) - 1)) \div 2)

C9_Witness ==
    /\ Done("t1")
    /\ config.retry_delay = 2
    /\ Len(log["t1"]) = 4
    /\ IsServerError(log["t1"][1].outcome)
    /\ IsException(log["t1"][2].outcome)
    /\ IsServerError(log["t1"][3].outcome)
    /\ sleeps["t1"] = <<2, 4, 6>>

\* C10: a call returns a success envelope exactly when its last attempt
\* received a response with a status below 400; the envelope has success =
\* true, that response's status and headers, and as data the parsed body, or
\* the raw text when the body is not JSON.
C10_SuccessEnvelope ==
    \A t \in Threads :
        (Done(t) /\ Len(log[t]) >= 1) =>
            LET o == Last(log[t]).outcome IN
            /\ (result[t].how = "return") <=> IsSuccess(o)
            /\ (result[t].value = "ApiResponse") <=> IsSuccess(o)
            /\ IsSuccess(o) =>
                 /\ result[t].success = TRUE
                 /\ result[t].status = o.status_code
                 /\ result[t].headers = o.headers
                 /\ result[t].data =
                      IF json(o.text).raised THEN PyStr(o.text)
                      ELSE json(o.text).value

C10_Witness ==
    /\ Done("t1")
    /\ Len(log["t1"]) = 1
    /\ log["t1"][1].outcome.status_code = 200
    /\ log["t1"][1].outcome.text = SuccessBody
    /\ result["t1"].data = SuccessDict
    /\ result["t1"].status = 200
    /\ result["t1"].success = TRUE


\* The state of the calls, as opposed to the state of the client.
callState == <<pc, args, full_url, range_end, attempt, log, sleeps, stdout, result>>
Sends(t) == Len(log'[t]) > Len(log[t])

\* The headers have Authorization: Bearer <api_key>.
Carries(headers, api_key) ==
    /\ "Authorization" \in DOMAIN headers
    /\ headers["Authorization"] = Bearer(api_key)

\* The session's Authorization header says what config.api_key says.
HeaderAgrees ==
    IF config.api_key = NoKey
    THEN "Authorization" \notin DOMAIN session_headers
    ELSE Carries(session_headers, config.api_key)

\* C11: whenever no set_api_key call is between its two assignments, the
\* session's Authorization header and config.api_key agree, and every attempt
\* then sent, a first attempt or a retry, carries Authorization: Bearer <the
\* token configured last>.
C11_BearerOnEveryAttempt ==
    /\ [](setting_key = NoCall => HeaderAgrees)
    /\ [][\A t \in Threads :
            (Sends(t) /\ setting_key = NoCall /\ config.api_key # NoKey) =>
                Carries(Last(log'[t]).request.headers, config.api_key)]_vars

C11_Witness ==
    /\ setting_key = NoCall
    /\ config.api_key = "new-api-key"
    /\ Len(log["t1"]) = 2
    /\ Carries(log["t1"][1].request.headers, "test-api-key")
    /\ Carries(log["t1"][2].request.headers, "new-api-key")
    /\ Len(log["t2"]) = 1
    /\ Carries(log["t2"][1].request.headers, "new-api-key")

\* C12: a call resolves its address once, against the base address in effect
\* when it starts; set_base_url changes the address of no call that has
\* started, and every attempt of a call goes to the address the call resolved.
C12_BaseUrlAtCallStart ==
    [][\A t \in Threads :
          /\ (pc[t] = "idle" /\ pc'[t] # "idle") =>
                full_url'[t] =
                    [origin |-> config.base_url.origin, path |-> args[t].url]
          /\ pc[t] # "idle" => full_url'[t] = full_url[t]
          /\ Sends(t) => Last(log'[t]).request.url = full_url[t]]_vars

C12_Witness ==
    /\ config.base_url = OtherBaseUrl
    /\ Len(log["t1"]) = 2
    /\ log["t1"][1].request.url.origin = BaseUrl.origin
    /\ log["t1"][2].request.url.origin = BaseUrl.origin
    /\ Len(sleeps["t2"]) = 0
    /\ Len(log["t2"]) = 1
    /\ log["t2"][1].request.url.origin = OtherBaseUrl.origin

\* C13 (as claimed): a set_api_key during a call that carries a token does
\* not change the Authorization header of the call's remaining attempts, so
\* all the attempts of one call carry the header of its first attempt.
C13_InFlightKeepsToken ==
    \A t \in Threads :
        \A i \in 1..Len(log[t]) :
            "Authorization" \in DOMAIN log[t][1].request.headers =>
                log[t][i].request.headers = log[t][1].request.headers

\* C14 (as claimed): every constructed client holds retries >= 0 and
\* timeout > 0.
C14_ConfigInvariant == config.retries >= 0 /\ config.timeout > 0

\* C15: a step of a request changes neither the configuration nor the
\* session's headers; set_api_key changes only api_key and the Authorization
\* header; set_base_url changes only base_url; timeout, retries, retry_delay
\* and debug never change.
C15_Frame ==
    [][/\ config'.timeout = config.timeout
       /\ config'.retries = config.retries
       /\ config'.retry_delay = config.retry_delay
       /\ config'.debug = config.debug
       /\ callState' # callState =>
            (config' = config /\ session_headers' = session_headers)
       /\ (config'.api_key # config.api_key \/ session_headers' # session_headers) =>
            /\ config'.base_url = config.base_url
            /\ callState' = callState
            /\ DOMAIN session_headers \subseteq DOMAIN session_headers'
            /\ DOMAIN session_headers' \subseteq
                 DOMAIN session_headers \cup {"Authorization"}
            /\ \A h \in DOMAIN session_headers \ {"Authorization"} :
                 session_headers'[h] = session_headers[h]
       /\ config'.base_url # config.base_url =>
            /\ config'.api_key = config.api_key
            /\ session_headers' = session_headers
            /\ callState' = callState]_vars

C15_Witness ==
    /\ config.base_url = OtherBaseUrl
    /\ config.api_key = "new-api-key"
    /\ setting_key = NoCall
    /\ Carries(session_headers, "new-api-key")
    /\ session_headers["Content-Type"] = <<"application/json">>
    /\ Done("t1")
    /\ Len(log["t1"]) = config.retries + 1
    /\ config.retries = 1
    /\ config.timeout = DefaultTimeout

\* C16: each of two concurrent calls counts its own attempts (at most
\* retries + 1) and its own waits, ends in what its own last attempt gives,
\* and while one call sleeps the other can send and complete.
C16_NoInterference ==
    \A t \in Threads :
        /\ Len(log[t]) <= config.retries + 1
        /\ pc[t] = "idle" => (Len(log[t]) = 0 /\ Len(sleeps[t]) = 0)
        /\ pc[t] = "request" =>
             (Len(log[t]) = attempt[t] /\ Len(sleeps[t]) = attempt[t])
        /\ pc[t] = "sleep" =>
             (Len(log[t]) = attempt[t] + 1 /\ Len(sleeps[t]) = attempt[t] + 1)
        /\ \A k \in 1..Len(sleeps[t]) : sleeps[t][k] = config.retry_delay * k
        /\ Done(t) =>
             LET o == Last(log[t]).outcome IN
             /\ Len(log[t]) = attempt[t] + 1
             /\ Len(sleeps[t]) = attempt[t]
             /\ (IsServerError(o) \/ IsException(o)) =>
                  Len(log[t]) = config.retries + 1
             /\ IsSuccess(o) =>
                  /\ result[t].value = "ApiResponse"
                  /\ result[t].status = o.status_code
                  /\ result[t].data = ParsedOrText(o)
             /\ IsException(o) =>
                  /\ result[t].value = "ApiError"
                  /\ result[t].status = 0
                  /\ result[t].message = PyStr(o.error)
             /\ (IsResponse(o) /\ ~IsSuccess(o)) =>
                  /\ result[t].how = "raise"
                  /\ result[t].status = o.status_code
        /\ \A u \in Threads \ {t} :
             (pc[t] = "sleep" /\ pc[u] = "request") =>
                 ENABLED (AttemptResponse(u) /\ pc'[u] = "done")

C16_Witness ==
    /\ pc["t1"] = "sleep"
    /\ Len(log["t1"]) = 1
    /\ Done("t2")
    /\ Len(log["t2"]) = 2
    /\ Len(sleeps["t2"]) = 1
    /\ result["t2"].value = "ApiResponse"

\* C17: the attempts, the waits and the outcome of a call are determined by
\* retries, retry_delay and the outcomes of its attempts, whatever debug is;
\* with debug on there is one printed line per attempt, with the method and
\* the resolved address, and with debug off there is none.
C17_DebugNoEffect ==
    \A t \in Threads :
        /\ Len(stdout[t]) = (IF config.debug THEN Len(log[t]) ELSE 0)
        /\ \A i \in 1..Len(stdout[t]) :
             stdout[t][i] =
               <<"[API Client]", log[t][i].request.method, log[t][i].request.url>>
        /\ Len(log[t]) >= 1 =>
             LET o == Last(log[t]).outcome
                 n == Len(log[t])
                 retried == (IsServerError(o) \/ IsException(o)) /\ n < config.retries + 1
             IN
             /\ Done(t) <=> ~retried
             /\ sleeps[t] =
                  [k \in 1..(IF retried THEN n ELSE n - 1) |-> config.retry_delay * k]
             /\ result[t] =
                  IF retried THEN Pending
                  ELSE IF IsException(o) THEN NetworkError(o)
                  ELSE IF IsSuccess(o) THEN Envelope(o)
                  ELSE RaiseForResponse(o)

C17_Witness ==
    /\ config.debug
    /\ Done("t1")
    /\ Len(log["t1"]) = 3
    /\ Len(stdout["t1"]) = 3
    /\ IsServerError(log["t1"][1].outcome)
    /\ IsException(log["t1"][2].outcome)
    /\ result["t1"].value = "ApiResponse"

====
